---- MODULE Spec2Model ----
(***************************************************************************)
(* A model of src/ViT/models/modeling.py: the Vision Transformer with the  *)
(* pruning hooks (boolean attention masks applied before or after the      *)
(* softmax, activation statistics, stochastic depth) and the import of     *)
(* pretrained weights.                                                     *)
(*                                                                         *)
(* Numbers.  Tensors hold exact rationals.  A probability is a record      *)
(* [n, d] read as n/d; d = 0 is the NaN that 0/0 produces.  exp is the     *)
(* power of two (strictly positive, strictly increasing, exp(-inf) = 0),   *)
(* so a softmax row is 2^s[j] / SUM_k 2^s[k].  Rounding is not modelled.   *)
(* Dropout layers are in evaluation mode, where torch's Dropout is the     *)
(* identity.  The classes of modeling_new_prune (AttentionActPrune,        *)
(* MlpActPrune) and LayerNormSparse are not part of the file: they stand   *)
(* as token-to-token maps of the same shape as their plain counterparts.   *)
(***************************************************************************)
EXTENDS Integers, Sequences, FiniteSets, TLC

\* ---------------------------------------------------------------- bounds
NTokens    == 2   \* sequence length T (config: n_tokens)
MaxCalls   == 2   \* forward calls made on one Attention instance
Resolution == 4   \* p and the uniform samples are multiples of 1/Resolution
MaxSDCalls == 3   \* forward calls made on one StochasticDepth wrapper
MaxInput   == 2   \* the scalar inputs of the wrapped module are 1..MaxInput
NLayers    == 2   \* config.transformer["num_layers"]: layers of the weight bundle
MaxGrid    == 2   \* patch grids are up to MaxGrid x MaxGrid

Tokens == 1..NTokens

VARIABLES
    attn,       \* the Attention instance: its attributes
    attn_ret,   \* what the most recent operation on attn returned
    attn_upd,   \* the record_attn_mean_var.update(...) made by that operation
    n_forward,  \* Attention.forward calls made so far
    n_enabled,  \* ... of them, the calls made with tracking enabled
    sd,         \* the StochasticDepth wrapper, once constructed
    sd_new,     \* the outcome of the most recent StochasticDepth(...) call
    sd_ret,     \* the most recent StochasticDepth.forward call and its result
    sd_calls,   \* StochasticDepth.forward calls made so far
    blk,        \* one Block: its flags, sub-modules and parameters
    blk_ret,    \* the most recent Block.forward call and its result
    blk_load,   \* the most recent Block.load_from call and its outcome
    vit,        \* the VisionTransformer: its flags, parameters and blocks
    vit_load    \* the most recent VisionTransformer.load_from call

attn_vars == <<attn, attn_ret, attn_upd, n_forward, n_enabled>>
sd_vars   == <<sd, sd_new, sd_ret, sd_calls>>
blk_vars  == <<blk, blk_ret, blk_load>>
vit_vars  == <<vit, vit_load>>
vars      == <<attn_vars, sd_vars, blk_vars, vit_vars>>

\* what the operations on one object leave alone: the other objects
not_attn == <<sd_vars, blk_vars, vit_vars>>
not_sd   == <<attn_vars, blk_vars, vit_vars>>
not_blk  == <<attn_vars, sd_vars, vit_vars>>
not_vit  == <<attn_vars, sd_vars, blk_vars>>

\* ------------------------------------------------------- tensor helpers
\* the function f, tabulated once
Tab(f) == IF f = f THEN f ELSE f

RECURSIVE SumTo(_, _)
\* SUM_{i = 1..n} f[i]
SumTo(f, n) == IF n = 0 THEN 0 ELSE f[n] + SumTo(f, n - 1)

RECURSIVE Dot(_, _, _)
\* SUM_{i = 1..n} a[i] * b[i]
Dot(a, b, n) == IF n = 0 THEN 0 ELSE a[n] * b[n] + Dot(a, b, n - 1)

RECURSIVE Pow2(_)
Pow2(k) == IF k = 0 THEN 1 ELSE 2 * Pow2(k - 1)

\* math.sqrt on the perfect squares the model uses
Sqrt(n) == CHOOSE r \in 0..n : r * r = n

\* int(config.hidden_size / self.num_attention_heads), for a configuration
\* with hidden_size 4 and one head
attention_head_size == 4

Dims == 1..attention_head_size

\* a finite score, or the -inf that masked_fill_ writes
Fin(v)  == [neg_inf |-> FALSE, v |-> v]
NegInf  == [neg_inf |-> TRUE, v |-> 0]

\* exp of a score (see the header): exp(-inf) = 0
Exp(s) == IF s.neg_inf THEN 0 ELSE Pow2(s.v)

\* torch.nn.Linear: y[o] = SUM_i W[o][i] * x[i] + b[o]
Linear(W, b, x) ==
    Tab([o \in Dims |-> Dot(W[o], x, attention_head_size) + b[o]])

\* w times the identity, the weights the instances are built with
Diag(w) == [o \in Dims |-> [i \in Dims |-> IF o = i THEN w ELSE 0]]
ZeroBias == [o \in Dims |-> 0]

\* Softmax(dim=-1) of one score matrix
Softmax(scores) ==
    [i \in Tokens |->
        LET den == SumTo([j \in Tokens |-> Exp(scores[i][j])], NTokens)
        IN  [j \in Tokens |-> [n |-> Exp(scores[i][j]), d |-> den]]]

\* torch.matmul(query_layer, key_layer.transpose(-1, -2)) / sqrt(head size)
AttentionScores(q, k) ==
    LET scale == Sqrt(attention_head_size)
    IN  [i \in Tokens |-> [j \in Tokens |->
            Dot(q[i], k[j], attention_head_size) \div scale]]

\* masked_fill_ with 0.0 in place of -inf
MaskedFillZero(scores, mask) ==
    [i \in Tokens |-> [j \in Tokens |->
        IF ~mask[i][j] THEN Fin(0) ELSE Fin(scores[i][j])]]

\* attention_scores.masked_fill_(~mask, -inf)
MaskedFill(scores, mask) ==
    [i \in Tokens |-> [j \in Tokens |->
        IF ~mask[i][j] THEN NegInf ELSE Fin(scores[i][j])]]

NoFill(scores) == [i \in Tokens |-> [j \in Tokens |-> Fin(scores[i][j])]]

\* (~mask).float() * attention_probs_
NegMaskTimes(mask, probs) ==
    [i \in Tokens |-> [j \in Tokens |->
        [n |-> (IF ~mask[i][j] THEN 1 ELSE 0) * probs[i][j].n, d |-> probs[i][j].d]]]

\* the branch of Attention.forward that computes attention_probs
AttentionProbs(a, scores) ==
    IF a.prune_mode
    THEN IF ~a.prune_after_softmax
         THEN Softmax(MaskedFill(scores, a.attention_mask))
         ELSE NegMaskTimes(a.attention_mask, Softmax(NoFill(scores)))
    ELSE Softmax(NoFill(scores))

\* torch.matmul(attention_probs, value_layer), then self.out: row i is the
\* vector of numerators over the row's common denominator
ContextLayer(probs, v) ==
    [i \in Tokens |->
        [num |-> Tab([c \in Dims |->
                    SumTo([j \in Tokens |-> probs[i][j].n * v[j][c]], NTokens)]),
         d   |-> probs[i][1].d]]

AttentionOutput(a, ctx) ==
    [i \in Tokens |-> [num |-> Linear(a.out_w, ZeroBias, ctx[i].num), d |-> ctx[i].d]]

\* ---------------------------------------------------------------- state
AllTrue == [i \in Tokens |-> [j \in Tokens |-> TRUE]]
Masks   == [Tokens -> [Tokens -> BOOLEAN]]

\* hidden_states: token t is the constant vector ((t + s) % 3) * (1, ..., 1)
TokenVec(a) == [c \in Dims |-> a]
Inputs == {[t \in Tokens |-> TokenVec((t + s) % 3)] : s \in 0..2}

NoProbs == [i \in Tokens |-> [j \in Tokens |-> [n |-> 0, d |-> 0]]]
NoRet   == [called |-> FALSE, error |-> "none", x |-> [t \in Tokens |-> TokenVec(0)],
            probs |-> NoProbs, has_weights |-> FALSE,
            output |-> [i \in Tokens |-> [num |-> TokenVec(0), d |-> 0]]]
NoUpd   == [made |-> 0, arg |-> NoProbs]

\* Attention.__init__; the weights are the identity, the biases zero
AttentionInit(prune_mode, prune_after_softmax, vis) ==
    [vis |-> vis, prune_mode |-> prune_mode,
     prune_after_softmax |-> prune_after_softmax,
     query_w |-> Diag(1), key_w |-> Diag(1), value_w |-> Diag(1), out_w |-> Diag(1),
     \* set only when prune_mode: torch.ones(...).bool(), and no tracker yet
     attention_mask |-> AllTrue,
     record_attn_mean_var |-> [installed |-> FALSE, n_updates |-> 0],
     attention_probs |-> NoProbs,
     record_attention_probs |-> FALSE]

\* the guard of line 134, `self.prune_mode and (self.record_attn_mean_var is
\* not None)`: "update", "skip", or the AttributeError of reading an attribute
\* that __init__ sets only when prune_mode
UnguardedUpdate(a) ==
    IF a.prune_mode
    THEN IF a.record_attn_mean_var.installed THEN "update" ELSE "AttributeError"
    ELSE "skip"

UpdateGuard(a) ==
    IF a.prune_mode
    THEN IF a.record_attn_mean_var.installed THEN "update" ELSE "skip"
    ELSE "skip"

\* Attention.forward(hidden_states)
AttentionForward(x) ==
    /\ n_forward < MaxCalls
    /\ LET q      == Tab([t \in Tokens |-> Linear(attn.query_w, ZeroBias, x[t])])
           k      == Tab([t \in Tokens |-> Linear(attn.key_w, ZeroBias, x[t])])
           v      == Tab([t \in Tokens |-> Linear(attn.value_w, ZeroBias, x[t])])
           scores == Tab(AttentionScores(q, k))
           probs  == Tab(AttentionProbs(attn, scores))
           guard  == UpdateGuard(attn)
       IN  /\ attn' = [attn EXCEPT
                  !.attention_probs =
                      IF attn.record_attention_probs THEN probs ELSE @,
                  !.record_attn_mean_var.n_updates =
                      IF guard = "update" THEN @ + 1 ELSE @]
           /\ attn_upd' = IF guard = "update" THEN [made |-> 1, arg |-> probs] ELSE NoUpd
           /\ attn_ret' =
                  IF guard = "AttributeError"
                  THEN [NoRet EXCEPT !.called = TRUE, !.error = guard, !.x = x]
                  ELSE [called |-> TRUE, error |-> "none", x |-> x, probs |-> probs,
                        has_weights |-> attn.vis,
                        output |-> AttentionOutput(attn, Tab(ContextLayer(probs, v)))]
    \* the observer's count of the calls made with a tracker installed on a
    \* pruning instance
    /\ n_enabled' = IF attn.prune_mode /\ attn.record_attn_mean_var.installed
                    THEN n_enabled + 1 ELSE n_enabled
    /\ n_forward' = n_forward + 1
    /\ UNCHANGED not_attn

\* the caller installs a statistics tracker: attn.record_attn_mean_var = ...
InstallTracker ==
    /\ attn.prune_mode
    /\ ~attn.record_attn_mean_var.installed
    /\ attn' = [attn EXCEPT !.record_attn_mean_var = [installed |-> TRUE, n_updates |-> 0]]
    /\ UNCHANGED <<attn_ret, attn_upd, n_forward, n_enabled>>
    /\ UNCHANGED not_attn

NextAttention ==
    \/ \E x \in Inputs : AttentionForward(x)
    \/ InstallTracker

\* ------------------------------------------------------ StochasticDepth
\* Probabilities are numerators over Resolution: p stands for p / Resolution
\* and a draw u of uniform_() for u / Resolution in [0, 1).
ScalarInputs == 1..MaxInput

\* the wrapped module, frozen: an affine map of a scalar tensor
ModuleForward(m, x) == m.w * x + m.b
Modules == {[w |-> 2, b |-> 1], [w |-> 3, b |-> 0]}

NoSD    == [built |-> FALSE, module |-> [w |-> 0, b |-> 0], p |-> 0, training |-> TRUE]
NoSDNew == [attempted |-> FALSE, p |-> 0, error |-> "none"]
NoPrev  == [seen |-> FALSE, out |-> [n |-> 0, d |-> 1]]
NoSDRet == [called |-> FALSE, training |-> FALSE, x |-> 0, u |-> 0, drawn |-> 0,
            invoked |-> 0, out |-> [n |-> 0, d |-> 1], prev |-> NoPrev]

\* `0 < p < 1` of StochasticDepth.__init__
ClosedRange(p) == 0 <= p /\ p <= Resolution

ValidDropProb(p) == 0 < p /\ p < Resolution

\* StochasticDepth(module, p)
SDConstruct(m, p) ==
    /\ ~sd.built
    /\ IF ~ValidDropProb(p)
       THEN /\ sd_new' = [attempted |-> TRUE, p |-> p, error |-> "ValueError"]
            /\ sd' = sd
       ELSE /\ sd_new' = [attempted |-> TRUE, p |-> p, error |-> "none"]
            \* nn.Module.__init__ leaves self.training = True
            /\ sd' = [built |-> TRUE, module |-> m, p |-> p, training |-> TRUE]
    /\ UNCHANGED <<sd_ret, sd_calls>>
    /\ UNCHANGED not_sd

\* nn.Module.train(mode) / eval() on the wrapper
SDSetTraining(mode) ==
    /\ sd.built
    /\ sd.training # mode
    /\ sd' = [sd EXCEPT !.training = mode]
    /\ UNCHANGED <<sd_new, sd_ret, sd_calls>>
    /\ UNCHANGED not_sd

\* the branch StochasticDepth.forward takes (lines 50-58)
SDPathInclusive(training, u, p) ==
    IF training THEN (IF u <= p THEN "bypass" ELSE "scaled") ELSE "plain"

SDPath(training, u, p) ==
    IF training THEN (IF u < p THEN "bypass" ELSE "scaled") ELSE "plain"

\* the value forward returns on a path, for input x and wrapped output y:
\* inputs, outputs * (1 - p), or the wrapped output
SDOutput(path, x, y, p) ==
    CASE path = "bypass" -> [n |-> x, d |-> 1]
      [] path = "scaled" -> [n |-> y * (Resolution - p), d |-> Resolution]
      [] OTHER           -> [n |-> y, d |-> 1]

\* StochasticDepth.forward(inputs); u is the draw of self._sampler.uniform_(),
\* made in training mode only
SDForward(x, u) ==
    /\ sd.built
    /\ sd_calls < MaxSDCalls
    /\ ~sd.training => u = 0
    /\ LET path == SDPath(sd.training, u, sd.p)
           y    == ModuleForward(sd.module, x)
       IN  sd_ret' = [called |-> TRUE, training |-> sd.training, x |-> x, u |-> u,
                      drawn |-> IF sd.training THEN 1 ELSE 0,
                      invoked |-> IF path = "bypass" THEN 0 ELSE 1,
                      out |-> SDOutput(path, x, y, sd.p),
                      \* the result of the call before, when both are inference
                      \* calls on the same input
                      prev |-> IF /\ ~sd.training /\ sd_ret.called
                                  /\ ~sd_ret.training /\ sd_ret.x = x
                               THEN [seen |-> TRUE, out |-> sd_ret.out]
                               ELSE NoPrev]
    /\ sd_calls' = sd_calls + 1
    /\ UNCHANGED <<sd, sd_new>>
    /\ UNCHANGED not_sd

NextSD ==
    \/ \E m \in Modules, p \in -1..(Resolution + 1) : SDConstruct(m, p)
    \/ \E mode \in BOOLEAN : SDSetTraining(mode)
    \/ \E x \in ScalarInputs, u \in 0..(Resolution - 1) : SDForward(x, u)


\* ---------------------------------------------------------------- Block
\* A Block is run on one token of hidden_size 2.  Its tensors are fixed point:
\* the integer v stands for v / Resolution, so that outputs * (1 - p) is exact.
\* config.hidden_size
hidden_size == 2
HDims == 1..hidden_size

Vec2(a, b)    == [c \in HDims |-> IF c = 1 THEN a ELSE b]
Mat2(a, b, c, d) == [r \in HDims |-> IF r = 1 THEN Vec2(a, b) ELSE Vec2(c, d)]
VAdd(x, y)    == [c \in HDims |-> x[c] + y[c]]
Sgn(v)        == IF v > 0 THEN 1 ELSE IF v < 0 THEN -1 ELSE 0

\* .t() of a matrix
Transpose(M)  == [r \in HDims |-> [c \in HDims |-> M[c][r]]]

\* torch.nn.Linear on a fixed-point vector
BlockLinear(W, b, x) ==
    [o \in HDims |-> Dot(W[o], x, hidden_size) + b[o] * Resolution]

\* LayerNorm(hidden_size, eps=1e-6) on two components: (x - mean) / std is
\* the sign of x[c] - mean (eps rounded away), then weight and bias
LayerNormForward(weight, bias, x) ==
    [c \in HDims |->
        weight[c] * Sgn(2 * x[c] - (x[1] + x[2])) * Resolution + bias[c] * Resolution]

\* the parameters Block.load_from writes, and the bundle keys they come from
AttnParams == {"query.weight", "key.weight", "value.weight", "out.weight",
               "query.bias", "key.bias", "value.bias", "out.bias"}
FfnParams  == {"fc1.weight", "fc2.weight", "fc1.bias", "fc2.bias"}
NormParams == {"attention_norm.weight", "attention_norm.bias",
               "ffn_norm.weight", "ffn_norm.bias"}
ParamNames == AttnParams \cup FfnParams \cup NormParams
Kernels    == {"query.weight", "key.weight", "value.weight", "out.weight",
               "fc1.weight", "fc2.weight"}

\* the order of the names, used to give every bundle entry its own values
ParamIndex(name) ==
    CASE name = "query.weight" -> 1 [] name = "key.weight" -> 2
      [] name = "value.weight" -> 3 [] name = "out.weight" -> 4
      [] name = "query.bias" -> 5 [] name = "key.bias" -> 6
      [] name = "value.bias" -> 7 [] name = "out.bias" -> 8
      [] name = "fc1.weight" -> 9 [] name = "fc2.weight" -> 10
      [] name = "fc1.bias" -> 11 [] name = "fc2.bias" -> 12
      [] name = "attention_norm.weight" -> 13 [] name = "attention_norm.bias" -> 14
      [] name = "ffn_norm.weight" -> 15 [] OTHER -> 16

\* weights[f"Transformer/encoderblock_{i}/..."]: the synthetic bundle holds,
\* for layer i, a kernel (as stored, not transposed) or a vector per name
BundleEntry(i, name) ==
    LET v == 20 * i + ParamIndex(name)
    IN  IF name \in Kernels THEN Mat2(v, v + 1, v + 2, v + 3) ELSE Vec2(v, v + 1)

\* np2th(...).view(hidden_size, hidden_size).t() for kernels, .view(-1) or
\* np2th alone for the vectors (lines 271-279, 290-293, 300-303)
Imported(i, name) ==
    IF name \in Kernels THEN Transpose(BundleEntry(i, name)) ELSE BundleEntry(i, name)

\* the parameters as constructed: identity weights, zero biases, and
\* LayerNorm's weight 1 and bias 0
InitialParam(name) ==
    IF name \in Kernels THEN Mat2(1, 0, 0, 1)
    ELSE IF name \in {"attention_norm.weight", "ffn_norm.weight"} THEN Vec2(1, 1)
    ELSE Vec2(0, 0)

\* Block.__init__: which classes self.attn and self.ffn are (lines 237-249)
AttnKind(new_backrazor) ==
    IF new_backrazor THEN "AttentionActPrune" ELSE "Attention"

FfnKind(new_backrazor, layer_drop) ==
    IF new_backrazor /\ layer_drop THEN "StochasticDepth"
    ELSE IF new_backrazor THEN "MlpActPrune"
    ELSE "Mlp"

\* ext: whether the classes of modeling_new_prune expose an attribute `module`
BlockInit(new_backrazor, layer_drop, prune_mode, drop_prob, ext) ==
    [new_backrazor |-> new_backrazor, layer_drop |-> layer_drop,
     prune_mode |-> prune_mode, drop_prob |-> drop_prob, training |-> TRUE,
     attn |-> AttnKind(new_backrazor),
     ffn |-> FfnKind(new_backrazor, layer_drop),
     ext |-> ext,
     params |-> [name \in ParamNames |-> InitialParam(name)]]

\* what self.attn(x) returns: Attention.forward returns the pair
\* (attention_output, weights) of line 146, AttentionActPrune a tensor
AttnReturnType(b) == IF b.attn = "Attention" THEN "tuple" ELSE "tensor"

\* attention over a single token: the softmax of one score is 1, so the
\* context is the value projection, then the out projection
AttnOutput(b, x) ==
    BlockLinear(b.params["out.weight"], b.params["out.bias"],
                BlockLinear(b.params["value.weight"], b.params["value.bias"], x))

\* fc2(act(fc1(x))), dropout in evaluation mode; the activation is rectified
\* linear in place of GELU
MlpOutput(b, x) ==
    LET hid == BlockLinear(b.params["fc1.weight"], b.params["fc1.bias"], x)
        act == [c \in HDims |-> IF hid[c] > 0 THEN hid[c] ELSE 0]
    IN  BlockLinear(b.params["fc2.weight"], b.params["fc2.bias"], act)

\* the path self.ffn(x) takes: that of StochasticDepth.forward when the MLP
\* is wrapped, the wrapped module's own forward otherwise
FfnPath(b, u) ==
    IF b.ffn = "StochasticDepth" THEN SDPath(b.training, u, b.drop_prob) ELSE "plain"

\* self.ffn(x)
FfnOutput(b, x, u) ==
    LET path == FfnPath(b, u)
    IN  CASE path = "bypass" -> x
          [] path = "scaled" ->
                [c \in HDims |->
                    (MlpOutput(b, x)[c] * (Resolution - b.drop_prob)) \div Resolution]
          [] OTHER -> MlpOutput(b, x)

NoVec     == Vec2(0, 0)
NoBlkRet  == [called |-> FALSE, error |-> "none", x |-> NoVec, u |-> 0,
              path |-> "none", h |-> NoVec, out |-> NoVec]
NoBlkLoad == [called |-> FALSE, error |-> "none", n_block |-> 0, line |-> 0]

BlockInputs == {Vec2(a * Resolution, b * Resolution) : a \in {0, 1}, b \in {1, 2}}

\* Block.forward(x); u is the draw of the wrapper's sampler
BlockForward(x, u) ==
    /\ (blk.ffn # "StochasticDepth" \/ ~blk.training) => u = 0
    /\ LET h1 == x
           n1 == LayerNormForward(blk.params["attention_norm.weight"],
                                  blk.params["attention_norm.bias"], x)
           a  == AttnOutput(blk, n1)
           r1 == VAdd(a, h1)
           h2 == r1
           n2 == LayerNormForward(blk.params["ffn_norm.weight"],
                                  blk.params["ffn_norm.bias"], r1)
           f  == FfnOutput(blk, n2, u)
       IN  blk_ret' =
               IF AttnReturnType(blk) # "tensor"
               THEN \* line 255: tuple + Tensor
                    [NoBlkRet EXCEPT !.called = TRUE, !.error = "TypeError",
                                     !.x = x, !.u = u]
               ELSE [called |-> TRUE, error |-> "none", x |-> x, u |-> u,
                     path |-> FfnPath(blk, u), h |-> h2, out |-> VAdd(f, h2)]
    /\ UNCHANGED <<blk, blk_load>>
    /\ UNCHANGED not_blk

\* nn.Module.train(mode) / eval() on the block
BlockSetTraining(mode) ==
    /\ blk.training # mode
    /\ blk' = [blk EXCEPT !.training = mode]
    /\ UNCHANGED <<blk_ret, blk_load>>
    /\ UNCHANGED not_blk

\* whether self.attn.module / self.ffn.module can be read (lines 281, 295):
\* Attention and Mlp define no such attribute, StochasticDepth does (line 44)
AttnHasModule(b) ==
    IF b.attn = "Attention" THEN FALSE ELSE b.ext.attn_module

FfnHasModule(b) ==
    CASE b.ffn = "Mlp" -> FALSE
      [] b.ffn = "StochasticDepth" -> TRUE
      [] OTHER -> b.ext.mlp_module

CopyFrom(params, names, i) ==
    [name \in ParamNames |-> IF name \in names THEN Imported(i, name) ELSE params[name]]

\* the line of Block.load_from that reads the bundle entry of a parameter:
\* 271-274 and 276-279 for the attention, 290-293 for the MLP, 300-303 for
\* the normalizations
ReadLine(name) ==
    LET k == ParamIndex(name)
    IN  IF k <= 4 THEN 270 + k
        ELSE IF k <= 8 THEN 271 + k
        ELSE IF k <= 12 THEN 281 + k
        ELSE 287 + k

\* Block.load_from(weights, n_block) on block b, for a bundle that lacks the
\* entry of the parameter `missing` of that layer ("none": a complete
\* bundle): the block afterwards and the error raised, if any, with the line
\* that raised it.  The attention entries are all read before the first
\* copy, the MLP entries before the first MLP copy, and each normalization
\* entry is read by the statement that copies it.
BlockLoadFrom(b, i, missing) ==
    IF missing \in AttnParams
    THEN [blk |-> b, error |-> "KeyError", line |-> ReadLine(missing)]
    ELSE IF ~AttnHasModule(b)
    THEN [blk |-> b, error |-> "AttributeError", line |-> 281]
    ELSE LET p1 == CopyFrom(b.params, AttnParams, i)
         IN  IF missing \in FfnParams
             THEN [blk |-> [b EXCEPT !.params = p1],
                   error |-> "KeyError", line |-> ReadLine(missing)]
             ELSE IF ~FfnHasModule(b)
             THEN [blk |-> [b EXCEPT !.params = p1],
                   error |-> "AttributeError", line |-> 295]
             ELSE LET p2   == CopyFrom(p1, FfnParams, i)
                      done == IF missing \in NormParams
                              THEN {n \in NormParams :
                                       ParamIndex(n) < ParamIndex(missing)}
                              ELSE NormParams
                  IN  [blk |-> [b EXCEPT !.params = CopyFrom(p2, done, i)],
                       error |-> IF missing \in NormParams THEN "KeyError" ELSE "none",
                       line |-> IF missing \in NormParams
                                THEN ReadLine(missing) ELSE 303]

\* block.load_from(weights, n_block=i), with a complete bundle
BlockLoad(i) ==
    /\ LET r == BlockLoadFrom(blk, i, "none")
       IN  /\ blk' = r.blk
           /\ blk_load' = [called |-> TRUE, error |-> r.error, n_block |-> i,
                           line |-> r.line]
    /\ UNCHANGED blk_ret
    /\ UNCHANGED not_blk

NextBlock ==
    \/ \E x \in BlockInputs, u \in 0..(Resolution - 1) : BlockForward(x, u)
    \/ \E mode \in BOOLEAN : BlockSetTraining(mode)
    \/ \E i \in 0..(NLayers - 1) : BlockLoad(i)


\* ----------------------------------------------------- VisionTransformer
\* the parameters load_from writes before the positional embedding
TopParams  == {"head.weight", "head.bias", "patch_embeddings.weight",
               "patch_embeddings.bias", "cls_token", "encoder_norm.weight",
               "encoder_norm.bias"}
TopKernels == {"head.weight", "patch_embeddings.weight"}

TopIndex(name) ==
    CASE name = "head.weight" -> 1 [] name = "head.bias" -> 2
      [] name = "patch_embeddings.weight" -> 3 [] name = "patch_embeddings.bias" -> 4
      [] name = "cls_token" -> 5 [] name = "encoder_norm.weight" -> 6
      [] OTHER -> 7

\* weights["head/kernel"], weights["embedding/kernel"], ... of the bundle
TopEntry(name) ==
    LET v == 100 + 4 * TopIndex(name)
    IN  IF name \in TopKernels THEN Mat2(v, v + 1, v + 2, v + 3) ELSE Vec2(v, v + 1)

\* lines 374-385: the head is zeroed or copied transposed; the 1 x 1 patch
\* kernel goes from HWIO to OIHW (np2th(conv=True)); the vectors are copied
TopImported(zero_head, name) ==
    IF name \in {"head.weight", "head.bias"} /\ zero_head
    THEN (IF name = "head.weight" THEN Mat2(0, 0, 0, 0) ELSE Vec2(0, 0))
    ELSE IF name \in TopKernels THEN Transpose(TopEntry(name)) ELSE TopEntry(name)

\* a row of an embedding table: the vector n of numerators over d
Row(n, d) == [n |-> n, d |-> d]

\* one row of weights["Transformer/posembed_input/pos_embedding"]
CkptRow(k) == Row(Vec2(10 * k, k * k), 1)
CkptTable(rows) == [k \in 1..rows |-> CkptRow(k)]

\* int(np.sqrt(n))
IntSqrt(n) == CHOOSE r \in 0..n : r * r <= n /\ (r + 1) * (r + 1) > n

\* Embeddings.__init__: n_patches, and position_embeddings of n_patches + 1
\* zero rows, whatever the classifier
NPatches(grid) == grid[1] * grid[2]
ModelRows(v) == NPatches(v.grid) + 1

\* ndimage.zoom(posemb_grid, (gs_new / gs_old, gs_new / gs_old, 1), order=1)
\* of the gs_old x gs_old grid whose rows are grid[1..gs_old * gs_old]:
\* output point o of an axis samples the input at o * (gs_old - 1) / (gs_new - 1)
\* and interpolates linearly; the result, flattened row by row
Zoom(grid, gs_old, gs_new) ==
    LET D        == IF gs_new > 1 THEN gs_new - 1 ELSE 1
        At(r, c) == grid[r * gs_old + c + 1].n
        Cell(o1, o2) ==
            LET a1 == IF gs_new > 1 THEN o1 * (gs_old - 1) ELSE 0
                a2 == IF gs_new > 1 THEN o2 * (gs_old - 1) ELSE 0
                f1 == a1 \div D
                f2 == a2 \div D
                r1 == a1 % D
                r2 == a2 % D
                W(r, d) == IF d = 0 THEN D - r ELSE r
                Term(d1, d2, ch) ==
                    IF W(r1, d1) * W(r2, d2) = 0 THEN 0
                    ELSE W(r1, d1) * W(r2, d2) * At(f1 + d1, f2 + d2)[ch]
            IN  Row([ch \in HDims |->
                        Term(0, 0, ch) + Term(0, 1, ch) + Term(1, 0, ch) + Term(1, 1, ch)],
                    D * D)
    IN  [k \in 1..(gs_new * gs_new) |->
            Cell((k - 1) \div gs_new, (k - 1) % gs_new)]

\* lines 387-410: the table handed to position_embeddings.copy_, or the error
\* raised before it
UsesClassToken(v) == v.classifier = "token"

ResizedPosemb(v, ckpt_rows) ==
    LET posemb   == CkptTable(ckpt_rows)
        tok      == UsesClassToken(v)
        ntok_new == IF tok THEN ModelRows(v) - 1 ELSE ModelRows(v)
        posemb_tok  == IF tok THEN SubSeq(posemb, 1, 1) ELSE <<>>
        posemb_grid == IF tok THEN SubSeq(posemb, 2, ckpt_rows) ELSE posemb
        L        == Len(posemb_grid)
        gs_old   == IntSqrt(L)
        gs_new   == IntSqrt(ntok_new)
    IN  IF gs_old = 0 \/ (L * hidden_size) % (gs_old * gs_old) # 0
        THEN \* posemb_grid.reshape(gs_old, gs_old, -1)
             [error |-> "RuntimeError", line |-> 404, table |-> <<>>]
        ELSE IF L # gs_old * gs_old
        THEN \* the last axis is no longer hidden_size: np.concatenate
             [error |-> "ValueError", line |-> 409, table |-> <<>>]
        ELSE [error |-> "none", line |-> 409,
              table |-> posemb_tok \o Zoom(posemb_grid, gs_old, gs_new)]

\* position_embeddings.copy_(table): equal shapes, or a single row that is
\* broadcast over the rows; anything else is a shape error
CopyPosemb(v, table) ==
    IF Len(table) = ModelRows(v) THEN [error |-> "none", rows |-> table]
    ELSE IF Len(table) = 1
    THEN [error |-> "none", rows |-> [k \in 1..ModelRows(v) |-> table[1]]]
    ELSE [error |-> "RuntimeError", rows |-> v.position_embeddings]

\* the one entry a bundle may lack: root 0 is the bundle's top level (the
\* name is that of the parameter the entry is copied to), root k the
\* entries "Transformer/encoderblock_{k-1}/..."; NoKey: a complete bundle
Key(root, name) == [root |-> root, name |-> name]
NoKey == Key(0, "none")
MissingKeys ==
    {NoKey}
    \cup {Key(0, name) : name \in TopParams \cup {"position_embeddings"}}
    \cup {Key(k, name) : k \in 1..NLayers, name \in ParamNames}

\* the line of VisionTransformer.load_from that reads a top-level entry
TopLine(name) ==
    CASE name = "head.weight" -> 378 [] name = "head.bias" -> 379
      [] name = "patch_embeddings.weight" -> 381
      [] name = "patch_embeddings.bias" -> 382
      [] name = "cls_token" -> 383 [] name = "encoder_norm.weight" -> 384
      [] name = "encoder_norm.bias" -> 385 [] OTHER -> 387

\* whether load_from reads the entry at all: with zero_head the head is
\* zeroed (lines 375-376) and the bundle's head entries are not looked up
TopEntryRead(zero_head, name) ==
    ~(zero_head /\ name \in {"head.weight", "head.bias"})

\* lines 374-385 on the parameters top: the statements run in order, each
\* reading its entry and then copying it, up to the first entry that is
\* missing
LoadTop(v, missing) ==
    LET fails == /\ missing.root = 0 /\ missing.name \in TopParams
                 /\ TopEntryRead(v.zero_head, missing.name)
        done  == IF fails
                 THEN {n \in TopParams : TopIndex(n) < TopIndex(missing.name)}
                 ELSE TopParams
    IN  [top   |-> [name \in TopParams |->
                       IF name \in done THEN TopImported(v.zero_head, name)
                       ELSE v.top[name]],
         error |-> IF fails THEN "KeyError" ELSE "none",
         line  |-> IF fails THEN TopLine(missing.name) ELSE 385]

RECURSIVE LoadLayers(_, _, _)
\* the loop of lines 412-414 from layer k on: the blocks afterwards and the
\* first error
LoadLayers(layers, k, missing) ==
    IF k > NLayers THEN [layers |-> layers, error |-> "none", line |-> 414]
    ELSE LET r == BlockLoadFrom(layers[k], k - 1,
                                IF missing.root = k THEN missing.name ELSE "none")
         IN  IF r.error # "none"
             THEN [layers |-> [layers EXCEPT ![k] = r.blk],
                   error |-> r.error, line |-> r.line]
             ELSE LoadLayers([layers EXCEPT ![k] = r.blk], k + 1, missing)

\* VisionTransformer.__init__ (with Transformer, Embeddings and Encoder)
VitInit(classifier, zero_head, grid, block) ==
    [classifier |-> classifier, zero_head |-> zero_head, grid |-> grid,
     top |-> [name \in TopParams |->
                 IF name \in TopKernels THEN Mat2(1, 0, 0, 1)
                 ELSE IF name = "encoder_norm.weight" THEN Vec2(1, 1)
                 ELSE Vec2(0, 0)],
     position_embeddings |->
         [k \in 1..(NPatches(grid) + 1) |-> Row(Vec2(0, 0), 1)],
     layers |-> [k \in 1..NLayers |-> block]]

\* the parameters of the model: what load_from may write
VitParams(v) ==
    [top |-> v.top, position_embeddings |-> v.position_embeddings,
     layers |-> [k \in 1..NLayers |-> v.layers[k].params]]

NoVitLoad == [called |-> FALSE, error |-> "none", line |-> 0, ckpt_rows |-> 0,
              resized |-> FALSE, table_rows |-> 0, written |-> FALSE,
              missing |-> NoKey, before |-> <<>>]

\* VisionTransformer.load_from(weights), for a bundle whose positional
\* table has ckpt_rows rows and that lacks the entry `missing`.  The import
\* is made once, on the model as constructed; the call record keeps the
\* parameters as they were when the call was made
VitLoadFrom(ckpt_rows, missing) ==
    LET loadtop == LoadTop(vit, missing)
        top     == loadtop.top
        same    == ckpt_rows = ModelRows(vit)
        resized == IF same
                   THEN [error |-> "none", line |-> 390, table |-> CkptTable(ckpt_rows)]
                   ELSE ResizedPosemb(vit, ckpt_rows)
        copied  == CopyPosemb(vit, resized.table)
        loaded  == LoadLayers(vit.layers, 1, missing)
        outcome == [called |-> TRUE, error |-> "none", line |-> 414,
                    ckpt_rows |-> ckpt_rows, resized |-> ~same,
                    table_rows |-> Len(resized.table), written |-> TRUE,
                    missing |-> missing, before |-> VitParams(vit)]
    IN  /\ ~vit_load.called
        /\ IF loadtop.error # "none"
           THEN /\ vit' = [vit EXCEPT !.top = top]
                /\ vit_load' = [outcome EXCEPT !.error = loadtop.error,
                                   !.line = loadtop.line, !.resized = FALSE,
                                   !.table_rows = 0, !.written = FALSE]
           ELSE IF missing = Key(0, "position_embeddings")
           THEN \* line 387: weights["Transformer/posembed_input/pos_embedding"]
                /\ vit' = [vit EXCEPT !.top = top]
                /\ vit_load' = [outcome EXCEPT !.error = "KeyError",
                                   !.line = 387, !.resized = FALSE,
                                   !.table_rows = 0, !.written = FALSE]
           ELSE IF resized.error # "none"
           THEN /\ vit' = [vit EXCEPT !.top = top]
                /\ vit_load' = [outcome EXCEPT !.error = resized.error,
                                   !.line = resized.line, !.written = FALSE]
           ELSE IF copied.error # "none"
           THEN /\ vit' = [vit EXCEPT !.top = top]
                /\ vit_load' = [outcome EXCEPT !.error = copied.error,
                                   !.line = 410, !.written = FALSE]
           ELSE /\ vit' = [vit EXCEPT !.top = top,
                                      !.position_embeddings = copied.rows,
                                      !.layers = loaded.layers]
                /\ vit_load' = [outcome EXCEPT !.error = loaded.error,
                                   !.line = loaded.line]
        /\ UNCHANGED not_vit

NextVit ==
    \E ckpt_rows \in 1..(MaxGrid * MaxGrid + 1), missing \in MissingKeys :
        VitLoadFrom(ckpt_rows, missing)

\* ------------------------------------------------------- specifications
\* (objects that a specification does not exercise stay as constructed)

\* attention_mask is a Parameter that the pruning controller (not part of
\* this file) overwrites between training phases: an instance enters a phase
\* with any mask of the constructed shape
InitAttention ==
    /\ \E pm \in BOOLEAN, pas \in BOOLEAN, vis \in {FALSE} :
        \E m \in (IF pm THEN Masks ELSE {AllTrue}) :
           attn = [AttentionInit(pm, pas, vis) EXCEPT !.attention_mask = m]
    /\ attn_ret = NoRet /\ attn_upd = NoUpd /\ n_forward = 0 /\ n_enabled = 0
    /\ sd = NoSD /\ sd_new = NoSDNew /\ sd_ret = NoSDRet /\ sd_calls = 0
    /\ blk = BlockInit(FALSE, FALSE, FALSE, 1, [attn_module |-> FALSE, mlp_module |-> FALSE])
    /\ blk_ret = NoBlkRet /\ blk_load = NoBlkLoad
    /\ vit = VitInit("token", FALSE, <<1, 1>>,
                     BlockInit(FALSE, FALSE, FALSE, 1,
                               [attn_module |-> FALSE, mlp_module |-> FALSE]))
    /\ vit_load = NoVitLoad

SpecAttention == InitAttention /\ [][NextAttention]_vars

InitSD ==
    /\ attn = AttentionInit(FALSE, FALSE, FALSE)
    /\ attn_ret = NoRet /\ attn_upd = NoUpd /\ n_forward = 0 /\ n_enabled = 0
    /\ sd = NoSD /\ sd_new = NoSDNew /\ sd_ret = NoSDRet /\ sd_calls = 0
    /\ blk = BlockInit(FALSE, FALSE, FALSE, 1, [attn_module |-> FALSE, mlp_module |-> FALSE])
    /\ blk_ret = NoBlkRet /\ blk_load = NoBlkLoad
    /\ vit = VitInit("token", FALSE, <<1, 1>>,
                     BlockInit(FALSE, FALSE, FALSE, 1,
                               [attn_module |-> FALSE, mlp_module |-> FALSE]))
    /\ vit_load = NoVitLoad

SpecSD == InitSD /\ [][NextSD]_vars

\* a Block built with any flags and any valid drop_prob; the classes of
\* modeling_new_prune may or may not expose `module`
InitBlock ==
    /\ attn = AttentionInit(FALSE, FALSE, FALSE)
    /\ attn_ret = NoRet /\ attn_upd = NoUpd /\ n_forward = 0 /\ n_enabled = 0
    /\ sd = NoSD /\ sd_new = NoSDNew /\ sd_ret = NoSDRet /\ sd_calls = 0
    /\ \E nb \in BOOLEAN, ld \in BOOLEAN, pm \in BOOLEAN, p \in 1..(Resolution - 1),
          am \in BOOLEAN, mm \in BOOLEAN :
           blk = BlockInit(nb, ld, pm, p, [attn_module |-> am, mlp_module |-> mm])
    /\ blk_ret = NoBlkRet /\ blk_load = NoBlkLoad
    /\ vit = VitInit("token", FALSE, <<1, 1>>,
                     BlockInit(FALSE, FALSE, FALSE, 1,
                               [attn_module |-> FALSE, mlp_module |-> FALSE]))
    /\ vit_load = NoVitLoad

SpecBlock == InitBlock /\ [][NextBlock]_vars

\* a VisionTransformer of any classifier, head option and patch grid, whose
\* blocks are built with any flags
InitVit ==
    /\ attn = AttentionInit(FALSE, FALSE, FALSE)
    /\ attn_ret = NoRet /\ attn_upd = NoUpd /\ n_forward = 0 /\ n_enabled = 0
    /\ sd = NoSD /\ sd_new = NoSDNew /\ sd_ret = NoSDRet /\ sd_calls = 0
    /\ blk = BlockInit(FALSE, FALSE, FALSE, 1, [attn_module |-> FALSE, mlp_module |-> FALSE])
    /\ blk_ret = NoBlkRet /\ blk_load = NoBlkLoad
    /\ \E cl \in {"token", "none"}, zh \in BOOLEAN,
          gh \in 1..MaxGrid, gw \in 1..MaxGrid,
          nb \in BOOLEAN, ld \in BOOLEAN, am \in BOOLEAN, mm \in BOOLEAN :
           vit = VitInit(cl, zh, <<gh, gw>>,
                         BlockInit(nb, ld, FALSE, 1,
                                   [attn_module |-> am, mlp_module |-> mm]))
    /\ vit_load = NoVitLoad

SpecVit == InitVit /\ [][NextVit]_vars

\* -------------------------------------------------------- claims on Block
\* the result of the fixed order of Block.forward, written out:
\* ffn(ffn_norm(attn(attention_norm(x)) + x)) + (attn(attention_norm(x)) + x)
ExpectedBlockOutput(b, x, u) ==
    LET r1 == VAdd(AttnOutput(b, LayerNormForward(b.params["attention_norm.weight"],
                                   b.params["attention_norm.bias"], x)), x)
    IN  VAdd(FfnOutput(b, LayerNormForward(b.params["ffn_norm.weight"],
                                   b.params["ffn_norm.bias"], r1), u), r1)

\* C8: for every configuration of the flags Block.forward runs norm, attn,
\* residual add, norm, ffn, residual add in that order and returns a token
\* tensor: what the attention sub-module returns can be added to the residual.
\* (Stated of the calls made on the parameters as constructed.)
C8_ForwardOrderEveryConfiguration ==
    (blk_ret.called /\ blk_load = NoBlkLoad) =>
        /\ blk_ret.error = "none"
        /\ blk_ret.out = ExpectedBlockOutput(blk, blk_ret.x, blk_ret.u)

\* C9: when a training-mode forward bypasses the stochastic-depth wrapped
\* MLP, the Block's output is the value that entered the MLP sub-block.
C9_BypassContributesNothing ==
    (blk_ret.called /\ blk_ret.error = "none" /\ blk_ret.path = "bypass") =>
        blk_ret.out = blk_ret.h

\* C6: Block.load_from(weights, i) completes for every configuration of the
\* flags, and afterwards every kernel is the transposed source kernel of
\* layer i and every bias and normalization vector the source vector.
C6_LoadFromRoundTrip ==
    blk_load.called =>
        /\ blk_load.error = "none"
        /\ \A name \in ParamNames :
              blk.params[name] =
                  IF name \in Kernels
                  THEN Transpose(BundleEntry(blk_load.n_block, name))
                  ELSE BundleEntry(blk_load.n_block, name)

\* ------------------------------------------- claims on VisionTransformer
\* the spatial part of the checkpoint table is a perfect-square grid
SpatialIsSquare ==
    LET L == IF vit.classifier = "token"
             THEN vit_load.ckpt_rows - 1 ELSE vit_load.ckpt_rows
    IN  L >= 1 /\ IntSqrt(L) * IntSqrt(L) = L

\* C7: when the checkpoint table's size differs from the model's and its
\* spatial part is a perfect square, the table written to position_embeddings
\* has n_patches + 1 rows, whatever the classifier, and with a class token
\* its row 0 is the checkpoint's row 0 verbatim.
C7_ResizedTableHasModelTokenCount ==
    (vit_load.called /\ vit_load.resized /\ SpatialIsSquare) =>
        /\ vit_load.written
        /\ vit_load.table_rows = NPatches(vit.grid) + 1
        /\ Len(vit.position_embeddings) = NPatches(vit.grid) + 1
        /\ vit.classifier = "token" => vit.position_embeddings[1] = CkptRow(1)

\* every parameter VisionTransformer.load_from targets holds its imported
\* value: the head (zeroed with zero_head), patch embedding, class token and
\* encoder norm, the positional table handed to copy_, every block's
\* parameters
EveryTargetOverwritten ==
    /\ \A name \in TopParams : vit.top[name] = TopImported(vit.zero_head, name)
    /\ vit_load.written
    /\ \A k \in 1..NLayers : \A name \in ParamNames :
           vit.layers[k].params[name] = Imported(k - 1, name)

\* C11: an import that fails leaves no partial result: when
\* VisionTransformer.load_from raises (a missing entry, a positional table
\* that cannot be reshaped or copied, a block's load_from failing), every
\* parameter of the model is what it was before the call; when it does not
\* raise, every targeted parameter has been overwritten.
C11_FailedImportLeavesNoPartialResult ==
    vit_load.called =>
        IF vit_load.error # "none"
        THEN VitParams(vit) = vit_load.before
        ELSE EveryTargetOverwritten


\* C4: a training-mode forward draws one sample and returns the input
\* unchanged, without invoking the wrapped module, when sample < p, and
\* otherwise wrapped(x) * (1 - p); an inference-mode forward returns
\* wrapped(x) unscaled, so that two inference calls on one input agree.
C4_StochasticDepthForward ==
    sd_ret.called =>
        LET y == ModuleForward(sd.module, sd_ret.x)
        IN  IF sd_ret.training
            THEN /\ sd_ret.drawn = 1
                 /\ IF sd_ret.u < sd.p
                    THEN sd_ret.out = [n |-> sd_ret.x, d |-> 1] /\ sd_ret.invoked = 0
                    ELSE /\ sd_ret.out.n * Resolution
                               = y * (Resolution - sd.p) * sd_ret.out.d
                         /\ sd_ret.invoked = 1
            ELSE /\ sd_ret.out = [n |-> y, d |-> 1]
                 /\ sd_ret.invoked = 1
                 /\ sd_ret.prev.seen => sd_ret.out = sd_ret.prev.out

\* a bypassing training call
C4_WitnessBypass ==
    sd_ret.called /\ sd_ret.training /\ sd_ret.u < sd.p /\ sd_ret.invoked = 0

\* C5: StochasticDepth(module, p) succeeds exactly when 0 < p < 1; any
\* other p, 0 and 1 included, raises ValueError and creates no wrapper.
C5_ConstructionRequiresOpenInterval ==
    sd_new.attempted =>
        /\ (sd_new.error = "none") <=> (0 < sd_new.p /\ sd_new.p < Resolution)
        /\ sd_new.error = "none" => (sd.built /\ sd.p = sd_new.p)
        /\ sd_new.error # "none" => (sd_new.error = "ValueError" /\ ~sd.built)

\* a construction with p = 1 that was refused
C5_WitnessRefused ==
    sd_new.attempted /\ sd_new.p = Resolution /\ sd_new.error = "ValueError" /\ ~sd.built

\* ------------------------------------------------- claims on Attention
RatEq(a, b) == a.d > 0 /\ b.d > 0 /\ a.n * b.d = b.n * a.d
IsZero(p)   == p.d > 0 /\ p.n = 0
IsNaN(p)    == p.d = 0

\* plain scaled-dot-product attention of the input of the last call:
\* softmax(Q K^T / sqrt(head size)), and its product with V
PlainProbs(x) ==
    LET q == [t \in Tokens |-> Linear(attn.query_w, ZeroBias, x[t])]
        k == [t \in Tokens |-> Linear(attn.key_w, ZeroBias, x[t])]
    IN  Tab(Softmax(NoFill(Tab(AttentionScores(q, k)))))

PlainOutput(x) ==
    LET v == [t \in Tokens |-> Linear(attn.value_w, ZeroBias, x[t])]
    IN  AttentionOutput(attn, Tab(ContextLayer(PlainProbs(x), v)))

Returned == attn_ret.called /\ attn_ret.error = "none"

\* C1: post-softmax masking: every entry of the returned probabilities is
\* exactly 0 where attention_mask is false and the full, un-renormalized
\* softmax value where attention_mask is true.
C1_PostSoftmaxZeroesMasked ==
    (Returned /\ attn.prune_mode /\ attn.prune_after_softmax) =>
        LET full == PlainProbs(attn_ret.x)
        IN  \A i \in Tokens, j \in Tokens :
                IF attn.attention_mask[i][j]
                THEN RatEq(attn_ret.probs[i][j], full[i][j])
                ELSE IsZero(attn_ret.probs[i][j])

\* C2: with pruning disabled, or with pruning enabled (either mode) and an
\* all-true mask, the probabilities and the output are those of plain
\* scaled-dot-product attention.
C2_AllTrueMaskIsPlainAttention ==
    (Returned /\ (~attn.prune_mode \/ attn.attention_mask = AllTrue)) =>
        /\ attn_ret.probs = PlainProbs(attn_ret.x)
        /\ attn_ret.output = PlainOutput(attn_ret.x)

UnmaskedSum(i) ==
    SumTo([j \in Tokens |->
              IF attn.attention_mask[i][j] THEN attn_ret.probs[i][j].n ELSE 0], NTokens)

PreSoftmaxRowOk(i) ==
    /\ \A j \in Tokens : ~attn.attention_mask[i][j] => IsZero(attn_ret.probs[i][j])
    /\ attn_ret.probs[i][1].d > 0
    /\ UnmaskedSum(i) = attn_ret.probs[i][1].d

PreSoftmaxCall == Returned /\ attn.prune_mode /\ ~attn.prune_after_softmax

\* C3 as stated: pre-softmax masking: in every row, for every mask, the
\* masked entries are exactly 0 and the unmasked entries sum to one.
C3_PreSoftmaxEveryRow ==
    PreSoftmaxCall => \A i \in Tokens : PreSoftmaxRowOk(i)

\* C3 as amended: pre-softmax masking: in every row that has at least one
\* unmasked entry the masked entries are exactly 0 and the unmasked entries
\* sum to one; a row whose entries are all masked is NaN throughout.
C3_PreSoftmaxRowsWithUnmasked ==
    PreSoftmaxCall =>
        \A i \in Tokens :
            IF \E j \in Tokens : attn.attention_mask[i][j]
            THEN PreSoftmaxRowOk(i)
            ELSE \A j \in Tokens : IsNaN(attn_ret.probs[i][j])

\* a pre-softmax call whose mask has a row with a masked and an unmasked
\* entry and a row that is masked throughout
C3_Witness ==
    /\ PreSoftmaxCall
    /\ \E i \in Tokens : \E j, k \in Tokens :
           attn.attention_mask[i][j] /\ ~attn.attention_mask[i][k]
    /\ \E i \in Tokens : \A j \in Tokens : ~attn.attention_mask[i][j]

\* C10: the tracker is updated exactly once by each forward call made with
\* tracking enabled (prune_mode and a tracker installed), with that call's
\* pre-dropout probabilities, and by no other call; no call raises.
C10_TrackerUpdatedOncePerEnabledCall ==
    /\ attn.record_attn_mean_var.n_updates = n_enabled
    /\ attn_ret.error = "none"
    /\ attn_upd.made = 1 => (Returned /\ attn_upd.arg = attn_ret.probs)
    /\ (~attn.prune_mode \/ ~attn.record_attn_mean_var.installed) =>
           (attn_upd.made = 0 /\ n_enabled = 0)
    /\ (attn.prune_mode /\ attn.record_attn_mean_var.installed /\ n_enabled > 0) =>
           attn_upd.made = 1

\* a pruning instance after an untracked call and then a tracked one
C10_Witness ==
    /\ attn.prune_mode
    /\ n_forward > n_enabled
    /\ n_enabled >= 1
    /\ attn.record_attn_mean_var.n_updates = n_enabled
    /\ attn_upd.made = 1

====
